---------------------------- MODULE Spec2Model ----------------------------
(***************************************************************************)
(* A model of the gemini_client helpers: load_cookies and upload_file      *)
(* (utils.py), Model.from_name (enums.py) and Image / GeneratedImage       *)
(* (images.py).  A Python str is a sequence of one-character strings, so   *)
(* that upper(), splitext(), re.sub(), unquote() and slicing are computed  *)
(* character by character.  One behaviour is one use of the library: an    *)
(* idle client makes a call, whose inputs and environment outcomes are     *)
(* drawn when the call (or the step that meets them) happens.              *)
(***************************************************************************)
EXTENDS Integers, Sequences, FiniteSets, TLC

VARIABLES
    pc,       \* "idle", "ready" (an image exists), "get", "mkdir", "write", "post", "done"
    call,     \* the operation called and its arguments
    result,   \* how the call ended: pending, return (with value) or raise (with exception)
    img,      \* the image object save() is called on (after construction)
    frame,    \* locals of the running call (filename, dest, response, file_content)
    dirs,     \* directories created by the call
    files,    \* files written by the call: set of [name, content]
    net       \* requests issued by the call, in order

vars == <<pc, call, result, img, frame, dirs, files, net>>

---------------------------------------------------------------------------
(* Bounds of the model. *)

\* longest cookie list read from the cookie file
MaxCookies == 3
\* longest tail (in tokens) of a generated URL path
MaxPathLen == 2
\* how many values next to each end of randint's range are drawn
RandSamples == 0
\* how far around max_len the lengths of long filenames range
LenSpread == 1

---------------------------------------------------------------------------
(* Python strings as sequences of characters. *)

\* c * n
Rep(c, n) == [i \in 1..n |-> c]

\* s[:k] for any integer k (a negative k counts from the end)
SliceTo(s, k) ==
    LET n == Len(s)
        e == IF k < 0 THEN (IF n + k < 0 THEN 0 ELSE n + k)
             ELSE (IF k > n THEN n ELSE k)
    IN  SubSeq(s, 1, e)

\* s[k:] for k >= 0
SliceFrom(s, k) == SubSeq(s, (IF k > Len(s) THEN Len(s) ELSE k) + 1, Len(s))

\* s.rfind(c): the last 0-based index of c in s, or -1
RFind(s, c) ==
    LET at == SelectSeq([i \in 1..Len(s) |-> i], LAMBDA i : s[i] = c)
    IN  IF at = <<>> THEN -1 ELSE at[Len(at)] - 1

\* the first 0-based index >= from of a character of cs in s, or Len(s)
FindAny(s, cs, from) ==
    LET at == SelectSeq([i \in 1..Len(s) |-> i], LAMBDA i : i > from /\ s[i] \in cs)
    IN  IF at = <<>> THEN Len(s) ELSE at[1] - 1

EndsWith(s, t) ==
    /\ Len(t) <= Len(s)
    /\ SubSeq(s, Len(s) - Len(t) + 1, Len(s)) = t

\* t in s
Contains(s, t) ==
    \E i \in 0..(Len(s) - Len(t)) : SubSeq(s, i + 1, i + Len(t)) = t

LowerLetters == <<"a","b","c","d","e","f","g","h","i","j","k","l","m",
                  "n","o","p","q","r","s","t","u","v","w","x","y","z">>
UpperLetters == <<"A","B","C","D","E","F","G","H","I","J","K","L","M",
                  "N","O","P","Q","R","S","T","U","V","W","X","Y","Z">>

\* the upper-case form of each lower-case letter, and the reverse
UpperOf == [c \in {LowerLetters[i] : i \in 1..26} |->
               UpperLetters[CHOOSE i \in 1..26 : LowerLetters[i] = c]]
LowerOf == [c \in {UpperLetters[i] : i \in 1..26} |->
               LowerLetters[CHOOSE i \in 1..26 : UpperLetters[i] = c]]

UpperChar(c) == IF c \in DOMAIN UpperOf THEN UpperOf[c] ELSE c

LowerChar(c) == IF c \in DOMAIN LowerOf THEN LowerOf[c] ELSE c

\* str.upper()
Upper(s) == [i \in 1..Len(s) |-> UpperChar(s[i])]

\* str.lower()
Lower(s) == [i \in 1..Len(s) |-> LowerChar(s[i])]

Digits == <<"0","1","2","3","4","5","6","7","8","9">>

RECURSIVE IntToStr(_)
\* str(n) for n >= 0
IntToStr(n) ==
    IF n < 10 THEN <<Digits[n + 1]>>
    ELSE IntToStr(n \div 10) \o <<Digits[(n % 10) + 1]>>

RECURSIVE Concat(_)
\* "".join(parts)
Concat(parts) ==
    IF parts = <<>> THEN <<>> ELSE Head(parts) \o Concat(Tail(parts))

\* all sequences over S of length at most n
SeqsUpTo(S, n) == UNION {[1..k -> S] : k \in 0..n}

---------------------------------------------------------------------------
(* Outcomes of a call. *)

Pending == [kind |-> "pending"]
Raise(exc, why) == [kind |-> "raise", exc |-> exc, why |-> why]
Return(v) == [kind |-> "return", value |-> v]
\* Python's None as a returned value
None == [t |-> "none"]
\* the object a constructor returns (kept in img)
Constructed == [t |-> "object"]

NoCall == [op |-> "none"]
NoImage == [cls |-> "none"]
NoFrame == [bound |-> {}]

---------------------------------------------------------------------------
(* utils.load_cookies *)

PSID_UPPER == <<"_","_","S","E","C","U","R","E","-","1","P","S","I","D">>
PSIDTS_UPPER == PSID_UPPER \o <<"T","S">>

\* cookie names as they appear in exported cookie files
NamePSID == <<"_","_","S","e","c","u","r","e","-","1","P","S","I","D">>
NamePsidLower == Lower(NamePSID)
NamePSIDTS == NamePSID \o <<"T","S">>
NamePsidtsMixed == Lower(NamePSID) \o <<"T","s">>
NamePSIDCC == NamePSID \o <<"C","C">>

CookieNames == {NamePSID, NamePsidLower, NamePSIDTS, NamePsidtsMixed, NamePSIDCC}
CookieValues == {<<>>, <<"s">>, <<"t">>}

\* A well-formed entry {"name": n, "value": v}
Entry(n, v) == [shape |-> "dict", hasName |-> TRUE, nameIsStr |-> TRUE, name |-> n,
                hasValue |-> TRUE, value |-> v]
\* {"name": n} with no "value" key
EntryNoValue(n) == [shape |-> "dict", hasName |-> TRUE, nameIsStr |-> TRUE, name |-> n,
                    hasValue |-> FALSE, value |-> <<>>]
\* {"value": v} with no "name" key
EntryNoName == [shape |-> "dict", hasName |-> FALSE, nameIsStr |-> FALSE, name |-> <<>>,
                hasValue |-> TRUE, value |-> <<"s">>]
\* {"name": 7, "value": v}: the name is no str
EntryNumName == [shape |-> "dict", hasName |-> TRUE, nameIsStr |-> FALSE, name |-> <<>>,
                 hasValue |-> TRUE, value |-> <<"s">>]
\* a list element that is no JSON object (a number)
EntryScalar == [shape |-> "scalar", hasName |-> FALSE, nameIsStr |-> FALSE, name |-> <<>>,
                hasValue |-> FALSE, value |-> <<>>]

GoodEntries == {Entry(n, v) : n \in CookieNames, v \in CookieValues}
JunkEntries == {EntryNoValue(NamePSID), EntryNoValue(NamePSIDCC), EntryNoName,
                EntryNumName, EntryScalar}
Entries == GoodEntries \cup JunkEntries

\* What open() and json.load() meet at cookie_path
FileAbsent == [kind |-> "absent", top |-> "none", items |-> <<>>]
FileBadJson == [kind |-> "badjson", top |-> "none", items |-> <<>>]
\* a JSON document whose top level is a list of items
FileList(items) == [kind |-> "json", top |-> "list", items |-> items]
\* a JSON document whose top level is null or a number (not iterable)
FileNull == [kind |-> "json", top |-> "null", items |-> <<>>]
\* a JSON object at top level: iterating it yields its keys (strs), here `n` keys
FileObject(n) == [kind |-> "json", top |-> "object", items |-> Rep(EntryScalar, n)]

CookieFiles ==
    {FileAbsent, FileBadJson, FileNull, FileObject(0), FileObject(1)}
        \cup {FileList(items) : items \in SeqsUpTo(Entries, MaxCookies)}

\* A startswith() in place of the comparison
name_matches_prefix(name, target) == SliceTo(Upper(name), Len(target)) = target

\* item['name'].upper() == '__SECURE-1PSID'
name_matches(name, target) == Upper(name) = target

RECURSIVE FirstValueFrom(_, _, _)
\* next((item['value'] for item in cookies if item['name'].upper() == target), None)
\* evaluated item by item from index i: the value of the first match, nothing, or
\* the exception the subscript or the call of upper() raises.
FirstValueFrom(items, i, target) ==
    IF i > Len(items) THEN [st |-> "none", v |-> <<>>, exc |-> "-"]
    ELSE LET item == items[i] IN
         IF item.shape # "dict" THEN [st |-> "error", v |-> <<>>, exc |-> "TypeError"]
         ELSE IF ~item.hasName THEN [st |-> "error", v |-> <<>>, exc |-> "KeyError"]
         ELSE IF ~item.nameIsStr THEN [st |-> "error", v |-> <<>>, exc |-> "AttributeError"]
         ELSE IF name_matches(item.name, target)
              THEN IF item.hasValue
                   THEN [st |-> "found", v |-> item.value, exc |-> "-"]
                   ELSE [st |-> "error", v |-> <<>>, exc |-> "KeyError"]
         ELSE FirstValueFrom(items, i + 1, target)

FirstValue(items, target) == FirstValueFrom(items, 1, target)

\* `x is None` in place of `not x`
OnlyNone(r) == r.st = "none"

\* `not x` for the result of next(..., None): None and "" are falsy
Falsy(r) == r.st = "none" \/ r.v = <<>>

\* load_cookies(cookie_path), where `file` is what the path holds
load_cookies(file) ==
    IF file.kind = "absent" THEN Raise("Exception", "Cookie file not found")
    ELSE IF file.kind = "badjson" THEN Raise("Exception", "Invalid JSON format")
    ELSE IF file.top = "null" THEN Raise("Exception", "unexpected: TypeError")
    ELSE LET a1 == FirstValue(file.items, PSID_UPPER) IN
         IF a1.st = "error" THEN Raise("Exception", "unexpected: " \o a1.exc)
         ELSE LET a2 == FirstValue(file.items, PSIDTS_UPPER) IN
              IF a2.st = "error" THEN Raise("Exception", "unexpected: " \o a2.exc)
              ELSE IF Falsy(a1) \/ Falsy(a2)
                   THEN Raise("Exception", "Required cookies not found")
                   ELSE Return(<<a1.v, a2.v>>)

LoadCookies ==
    /\ pc = "idle"
    /\ \E file \in CookieFiles :
          /\ call' = [op |-> "load_cookies", file |-> file]
          /\ result' = load_cookies(file)
    /\ pc' = "done"
    /\ UNCHANGED <<img, frame, dirs, files, net>>

---------------------------------------------------------------------------
(* enums.Model *)

GeminiPrefix == <<"g","e","m","i","n","i","-","2",".">>
FlashName == <<"f","l","a","s","h">>
ExpAdvancedName == <<"-","e","x","p","-","a","d","v","a","n","c","e","d">>

\* The members of Model in definition order: (model_name, model_header, advanced_only)
Models == <<
    [member |-> "UNSPECIFIED",
     model_name |-> <<"u","n","s","p","e","c","i","f","i","e","d">>,
     model_header |-> "", advanced_only |-> FALSE],
    [member |-> "G_2_0_FLASH",
     model_name |-> GeminiPrefix \o <<"0","-">> \o FlashName,
     model_header |-> "f299729663a2343f", advanced_only |-> FALSE],
    [member |-> "G_2_0_FLASH_THINKING",
     model_name |-> GeminiPrefix \o <<"0","-">> \o FlashName
                        \o <<"-","t","h","i","n","k","i","n","g">>,
     model_header |-> "7ca48d02d802f20a", advanced_only |-> FALSE],
    [member |-> "G_2_5_FLASH",
     model_name |-> GeminiPrefix \o <<"5","-">> \o FlashName,
     model_header |-> "35609594dbe934d8", advanced_only |-> FALSE],
    [member |-> "G_2_5_PRO",
     model_name |-> GeminiPrefix \o <<"5","-","p","r","o">>,
     model_header |-> "2525e3954d185b3c", advanced_only |-> FALSE],
    [member |-> "G_2_0_EXP_ADVANCED",
     model_name |-> GeminiPrefix \o <<"0">> \o ExpAdvancedName,
     model_header |-> "b1e46a6037e6aa9f", advanced_only |-> TRUE],
    [member |-> "G_2_5_EXP_ADVANCED",
     model_name |-> GeminiPrefix \o <<"5">> \o ExpAdvancedName,
     model_header |-> "203e6bb81620bcfe", advanced_only |-> TRUE] >>

ModelNames == {Models[i].model_name : i \in 1..Len(Models)}

\* Names a caller may ask for: every model name, every prefix of one (among them
\* the empty name), and the same in upper case.
LookupNames ==
    LET prefixes == UNION {{SubSeq(n, 1, k) : k \in 0..Len(n)} : n \in ModelNames}
    IN  prefixes \cup {Upper(p) : p \in prefixes}

\* A lookup that falls back to UNSPECIFIED
from_name_or_default(name) ==
    IF \E i \in 1..Len(Models) : Models[i].model_name = name
    THEN Return(Models[CHOOSE i \in 1..Len(Models) : Models[i].model_name = name])
    ELSE Return(Models[1])

\* Model.from_name(name): the first member, in definition order, whose model_name
\* equals name; ValueError when there is none.
from_name(name) ==
    IF \E i \in 1..Len(Models) : Models[i].model_name = name
    THEN Return(Models[CHOOSE i \in 1..Len(Models) :
                    /\ Models[i].model_name = name
                    /\ \A j \in 1..(i-1) : Models[j].model_name # name])
    ELSE Raise("ValueError", "Unknown model name")

FromName ==
    /\ pc = "idle"
    /\ \E name \in LookupNames :
          /\ call' = [op |-> "from_name", name |-> name]
          /\ result' = from_name(name)
    /\ pc' = "done"
    /\ UNCHANGED <<img, frame, dirs, files, net>>

---------------------------------------------------------------------------
(* Sessions, requests and exceptions shared by upload_file and Image.save *)

NoCookies == [t |-> "none", d |-> {}]
CookieDict(d) == [t |-> "dict", d |-> d]
\* a value that is neither None nor a dict
NotADict == [t |-> "str", d |-> {}]

JarA == CookieDict({<<"__Secure-1PSID", "s">>, <<"__Secure-1PSIDTS", "t">>})
JarB == CookieDict({<<"__Secure-1PSID", "u">>})
EmptyJar == CookieDict({})

\* the proxy argument: None, a URL string, or a per-scheme dict
Proxies == {"None", "str", "dict"}

\* proxies_dict as built from the proxy argument
proxies_dict(proxy) ==
    IF proxy = "str" THEN "http+https" ELSE IF proxy = "dict" THEN "as given" ELSE "None"

\* AsyncSession(cookies=..., proxies=..., headers=...) entered
SessionOpened(cookies, proxies, headers) ==
    [ev |-> "session", url |-> <<>>, cookies |-> cookies, proxies |-> proxies,
     headers |-> headers, body |-> <<>>]

\* a request sent on the session, which carries the session's cookies
Request(method, url, cookies, body) ==
    [ev |-> method, url |-> url, cookies |-> cookies, proxies |-> "-",
     headers |-> "-", body |-> body]

\* What `await client.get/post` may raise (curl_cffi's error, or requests' base error)
TransportErrors == {"CurlError", "RequestException"}
\* What response.raise_for_status() may raise on a non-success status
StatusErrors == {"HTTPError", "CurlError"}

\* issubclass(exc, cls) for the classes the except clauses name
IsSubclass(exc, cls) ==
    \/ exc = cls
    \/ cls = "Exception"
    \/ exc = "HTTPError" /\ cls \in {"RequestException", "IOError"}
    \/ exc = "RequestException" /\ cls = "IOError"
    \/ exc \in {"OSError", "PermissionError", "FileNotFoundError"} /\ cls = "IOError"

---------------------------------------------------------------------------
(* utils.upload_file *)

UploadEndpoint == <<"u","p","l","o","a","d">>

\* bytes values
Blobs == {<<>>, <<1>>, <<2, 3>>}

\* The file argument: bytes, or a path together with what the path names
FileArgs ==
    {[isBytes |-> TRUE, data |-> b, status |-> "-", readable |-> TRUE] : b \in Blobs}
    \cup {[isBytes |-> FALSE, data |-> b, status |-> st, readable |-> r] :
            b \in Blobs, st \in {"absent", "dir", "file"}, r \in BOOLEAN}

\* Path(file).exists() in place of is_file()
path_exists(file) == file.status # "absent"

\* Path(file).is_file()
is_file(file) == file.status = "file"

\* Lines 38-53: resolve the file content, or raise before any request
UploadBegin ==
    /\ pc = "idle"
    /\ \E file \in FileArgs, proxy \in Proxies :
          /\ call' = [op |-> "upload_file", file |-> file, proxy |-> proxy]
          /\ IF ~file.isBytes /\ ~is_file(file)
             THEN /\ result' = Raise("FileNotFoundError", "File not found at path")
                  /\ pc' = "done"
                  /\ frame' = NoFrame
             ELSE IF ~file.isBytes /\ ~file.readable
             THEN /\ result' = Raise("PermissionError", "open")
                  /\ pc' = "done"
                  /\ frame' = NoFrame
             ELSE /\ result' = Pending
                  /\ pc' = "post"
                  /\ frame' = [bound |-> {"file_content"}, file_content |-> file.data]
    /\ UNCHANGED <<img, dirs, files, net>>

\* Lines 55-74: open the session, POST the content; the handlers log and re-raise
UploadPost ==
    /\ pc = "post"
    /\ net' = net \o << SessionOpened(NoCookies, proxies_dict(call.proxy), "UPLOAD"),
                        Request("POST", UploadEndpoint, NoCookies, frame.file_content) >>
    /\ \/ \E e \in TransportErrors : result' = Raise(e, "post")
       \/ \E e \in StatusErrors : result' = Raise(e, "raise_for_status")
       \/ \E id \in {<<"i","d","1">>, <<"i","d","2">>} : result' = Return(id)
    /\ pc' = "done"
    /\ UNCHANGED <<call, img, frame, dirs, files>>

---------------------------------------------------------------------------
(* Library functions Image.save calls: urlparse, unquote, basename, re.sub, *)
(* splitext, random.randint.                                                *)

max_len == 255
RandLo == 1000
RandHi == 9999

DefaultPath == "downloaded_images"

\* "https://h"
UrlBase == <<"h","t","t","p","s",":","/","/","h">>

\* urlparse(url).path: what follows the scheme and the netloc, up to the first
\* '#' (fragment) or '?' (query), less the ';params' of its last segment
urlparse_path(url) ==
    LET colon == FindAny(url, {":"}, 0)
        rest == IF colon < Len(url) THEN SliceFrom(url, colon + 1) ELSE url
        hasNetloc == Len(rest) >= 2 /\ rest[1] = "/" /\ rest[2] = "/"
        afterNetloc == IF hasNetloc
                       THEN SliceFrom(rest, FindAny(rest, {"/", "?", "#"}, 2))
                       ELSE rest
        noFragment == SliceTo(afterNetloc, FindAny(afterNetloc, {"#"}, 0))
        path == SliceTo(noFragment, FindAny(noFragment, {"?"}, 0))
        lastSlash == RFind(path, "/")
    IN  SliceTo(path, FindAny(path, {";"}, IF lastSlash < 0 THEN 0 ELSE lastSlash))

\* The %XX escapes that occur in the URLs of the model, with the characters they encode
EscapeTable == { <<"5", "C", "\\">>, <<"2", "F", "/">>, <<"3", "F", "?">> }

\* unquote(s): every %XX escape replaced by its character.  An escape starts at a
\* '%' and covers the two characters after it; no escape starts inside another.
unquote(s) ==
    LET n == Len(s)
        IsEsc(i) == /\ i >= 1 /\ i + 2 <= n /\ s[i] = "%"
                    /\ \E e \in EscapeTable : e[1] = s[i+1] /\ e[2] = s[i+2]
        Decoded(i) == (CHOOSE e \in EscapeTable : e[1] = s[i+1] /\ e[2] = s[i+2])[3]
        marked == [i \in 1..n |->
                      IF IsEsc(i - 1) \/ IsEsc(i - 2) THEN ""
                      ELSE IF IsEsc(i) THEN Decoded(i) ELSE s[i]]
    IN  SelectSeq(marked, LAMBDA c : c # "")

\* os.path.basename(p), with POSIX separators
basename(p) == SliceFrom(p, RFind(p, "/") + 1)

\* The characters the pattern r'[<>:"/\|?*]' matches.  In the class, \| is an
\* escaped '|': the backslash itself is not a member.
PatternChars == {"<", ">", ":", "\"", "/", "|", "?", "*"}

\* re.sub(r'[<>:"/\|?*]', '_', s)
re_sub(s) == [i \in 1..Len(s) |-> IF s[i] \in PatternChars THEN "_" ELSE s[i]]

\* os.path.splitext(p) (POSIX) as <<root, ext>>: the extension starts at the last dot of
\* the last path component, unless only dots precede it there
splitext(p) ==
    LET sepIndex == RFind(p, "/")
        dotIndex == RFind(p, ".")
    IN  IF /\ dotIndex > sepIndex
           /\ \E k \in (sepIndex + 1)..(dotIndex - 1) : p[k + 1] # "."
        THEN << SliceTo(p, dotIndex), SliceFrom(p, dotIndex) >>
        ELSE << p, <<>> >>

\* The values of random.randint(1000, 9999) the model draws
RandInts == {RandLo + k : k \in 0..RandSamples} \cup {RandHi - k : k \in 0..RandSamples}

\* f"image_{n}.jpg"
fallback_name(n) ==
    <<"i","m","a","g","e","_">> \o IntToStr(n) \o <<".","j","p","g">>

\* Lines 72-84: the filename derived from the image URL
derive_filename(url, n) ==
    LET safe_filename == re_sub(basename(unquote(urlparse_path(url))))
    IN  IF safe_filename # <<>> THEN safe_filename ELSE fallback_name(n)

\* Lines 89-92: the length step
limit_length(filename) ==
    IF Len(filename) > max_len
    THEN LET name == splitext(filename)[1]
             ext == splitext(filename)[2]
         IN  SliceTo(name, max_len - Len(ext) - 1) \o ext
    ELSE filename

---------------------------------------------------------------------------
(* Inputs of the image operations *)

\* The tokens generated URL paths are made of
PathTokens == { <<"a">>, <<".">>, <<"/">>, <<"\\">>, <<"?">>, <<":">>, <<"%","5","C">> }

\* a path with one of each character a file name must not hold
ProbePaths == { <<"/","a",c,"b">> : c \in PatternChars \cup {"\\", ";"} }
                  \cup { <<"/","a","%","2","F","b",".","j","p","g">>,
                         <<"/","a","%","3","F","b">> }

\* "a"*stem followed by an extension of ext characters, its dot included
Shape(stem, ext) ==
    Rep("a", stem) \o (IF ext = 0 THEN <<>> ELSE <<".">> \o Rep("x", ext - 1))

NearMax == (max_len - LenSpread)..(max_len + LenSpread)
StemLens == {0, 1, 2, 2 * max_len - 2} \cup NearMax
ExtLens == {0, 1, 4} \cup NearMax

LongNames == {Shape(st, ex) : st \in StemLens, ex \in ExtLens}

\* URLs whose filename is derived: no path, generated paths, probes, long names
DerivingURLs ==
    {UrlBase}
    \cup {UrlBase \o <<"/">> \o Concat(t) : t \in SeqsUpTo(PathTokens, MaxPathLen)}
    \cup {UrlBase \o p : p \in ProbePaths}
    \cup {UrlBase \o <<"/","i","/">> \o f : f \in LongNames}

PlainURL == UrlBase \o <<"/","i","/","p",".","j","p","g">>

\* URLs of generated images
GeneratedURLs ==
    { PlainURL,
      UrlBase \o <<"/","g","/","A",".","J","P","G">>,
      UrlBase \o <<"/","g","/">> \o Rep("k", 12) \o <<"?","s","=","1">>,
      UrlBase \o <<"/","g",".","j","p","g","/","x",":","y">> }

\* The filename argument: not passed, None, or a str
FnAbsent == [passed |-> FALSE, isNone |-> TRUE, s |-> <<>>]
FnNone == [passed |-> TRUE, isNone |-> TRUE, s |-> <<>>]
FnStr(f) == [passed |-> TRUE, isNone |-> FALSE, s |-> f]

GivenNames == LongNames \cup { <<"d",".","x","/">> \o f : f \in {Shape(2, 0), Shape(max_len, 4)} }

\* datetime.now().strftime('%Y%m%d%H%M%S')
Stamps == { <<"2","0","2","5","0","1","0","2","0","3","0","4","0","5">>,
            <<"2","0","2","5","1","2","3","1","2","3","5","9","5","9">> }

\* Response bodies
Contents == {<<7, 7>>}

---------------------------------------------------------------------------
(* images.Image, images.WebImage, images.GeneratedImage: construction *)

\* A validator that checks the type alone
validate_cookies_type_only(v) == v.t = "dict"

\* GeneratedImage.validate_cookies(v): v is rejected when falsy or no dict.
\* (A value that is no Dict[str, str] is rejected by the field's type before.)
validate_cookies(v) == v.t = "dict" /\ v.d # {}

\* What a caller may pass as GeneratedImage's cookies
CookieInputs == {NoCookies, NotADict, EmptyJar, JarA, JarB}

\* Image(url=...) and WebImage(url=...): no cookies field
NewImage ==
    /\ pc = "idle"
    /\ \E cls \in {"Image", "WebImage"}, url \in DerivingURLs \cup {PlainURL},
          proxy \in Proxies :
          /\ cls = "WebImage" \/ proxy # "None" => url = PlainURL
          /\ call' = [op |-> "new", cls |-> cls, hasCookies |-> FALSE, cookies |-> NoCookies]
          /\ img' = [cls |-> cls, url |-> url, proxy |-> proxy, cookies |-> NoCookies]
    /\ pc' = "ready"
    /\ result' = Return(Constructed)
    /\ UNCHANGED <<frame, dirs, files, net>>

\* GeneratedImage(url=..., cookies=...): the cookies field is required and validated
NewGeneratedImage ==
    /\ pc = "idle"
    /\ \E url \in GeneratedURLs, has \in BOOLEAN, c \in CookieInputs :
          /\ ~has => c = NoCookies
          /\ call' = [op |-> "new", cls |-> "GeneratedImage", hasCookies |-> has,
                      cookies |-> c]
          /\ IF has /\ validate_cookies(c)
             THEN /\ img' = [cls |-> "GeneratedImage", url |-> url, proxy |-> "None",
                             cookies |-> c]
                  /\ pc' = "ready"
                  /\ result' = Return(Constructed)
             ELSE /\ img' = NoImage
                  /\ pc' = "done"
                  /\ result' = Raise("ValidationError", "cookies")
    /\ UNCHANGED <<frame, dirs, files, net>>

---------------------------------------------------------------------------
(* Image.save *)

\* What Path.mkdir and Path.write_bytes may raise
FsErrors == {"OSError", "PermissionError"}

\* the path object dest_path / filename, and the str of its resolve()
Dest(path, filename) == [dir |-> path, name |-> filename]
Resolved(dest) == [t |-> "abspath", dir |-> dest.dir, name |-> dest.name]

\* Lines 143-154: the except clauses, tried in order, each logging and re-raising.
\* The IOError clause formats `dest` into its message, a local bound only at
\* line 133: evaluated before, the message itself raises UnboundLocalError.
save_handlers(exc, bound) ==
    IF IsSubclass(exc, "HTTPError") THEN exc
    ELSE IF IsSubclass(exc, "RequestException") \/ IsSubclass(exc, "CurlError") THEN exc
    ELSE IF IsSubclass(exc, "IOError")
         THEN (IF "dest" \in bound THEN exc ELSE "UnboundLocalError")
    ELSE exc

\* A save that is skipped whatever the flag says
skips_always(skip_invalid_filename) == TRUE

\* Lines 96-100: what an invalid filename leads to: skip the save (return None)
\* or go on under a fallback name
skips_invalid(skip_invalid_filename) == skip_invalid_filename

\* Lines 71-109 of Image.save(path, filename, cookies, skip_invalid_filename) on
\* image `img`: the filename is derived when none is given, then validated.
\* Path(filename) raising OSError or ValueError is an outcome of the environment.
\* (verbose only adds log lines, which are not modelled.)
EnterSave(filename, cookies, skip, path) ==
    \E invalid \in BOOLEAN, n1 \in RandInts, n2 \in RandInts :
       LET derived == filename.isNone \/ filename.s = <<>>
           named == IF derived THEN derive_filename(img.url, n1) ELSE filename.s
           fr == [bound |-> {"filename"}, derived |-> derived, named |-> named,
                  invalid |-> invalid, filename |-> named, cookies |-> cookies,
                  path |-> path, content |-> <<>>, dest |-> Dest(path, <<>>),
                  caught |-> "-", at |-> "-"]
       IN  IF ~invalid
           THEN /\ frame' = [fr EXCEPT !.filename = limit_length(named)]
                /\ pc' = "get"
                /\ result' = Pending
           ELSE IF skips_invalid(skip)
           THEN /\ frame' = fr
                /\ pc' = "done"
                /\ result' = Return(None)
           ELSE /\ frame' = [fr EXCEPT !.filename = fallback_name(n2)]
                /\ pc' = "get"
                /\ result' = Pending

\* img.save(...) on an Image or a WebImage
SaveBegin ==
    /\ pc = "ready"
    /\ img.cls \in {"Image", "WebImage"}
    /\ \E fn \in {FnAbsent} \cup {FnStr(f) : f \in GivenNames \cup {<<>>}},
          cookies \in {NoCookies, JarA}, skip \in BOOLEAN :
          /\ fn.passed \/ cookies # NoCookies => img.url = PlainURL
          /\ call' = [op |-> "save", filename |-> fn, hasCookies |-> cookies # NoCookies,
                      cookies |-> cookies, skip |-> skip, path |-> DefaultPath]
          /\ EnterSave(fn, cookies, skip, DefaultPath)
    /\ UNCHANGED <<img, dirs, files, net>>

\* Lines 111-123 (and the handlers): the session is opened with the cookies, the
\* URL is fetched and the status checked; `made` is the set of directories that
\* exist when the request is sent
Fetch(made) ==
    /\ pc = "get"
    /\ dirs' = made
    /\ net' = net \o << SessionOpened(frame.cookies, proxies_dict(img.proxy), "-"),
                        Request("GET", img.url, frame.cookies, <<>>) >>
    /\ \/ \E e \in TransportErrors :
             /\ result' = Raise(save_handlers(e, frame.bound), "get")
             /\ frame' = [frame EXCEPT !.caught = e, !.at = "get"]
             /\ pc' = "done"
       \/ \E e \in StatusErrors :
             /\ result' = Raise(save_handlers(e, frame.bound), "raise_for_status")
             /\ frame' = [frame EXCEPT !.caught = e, !.at = "raise_for_status"]
             /\ pc' = "done"
       \/ \E content \in Contents :
             /\ frame' = [frame EXCEPT !.content = content]
             /\ pc' = "mkdir"
             /\ UNCHANGED result
    /\ UNCHANGED <<call, img, files>>

\* The destination directory made before the request is sent
SaveGetAfterMkdir == Fetch(dirs \cup {frame.path})

\* The request: no directory is made before it
SaveGet == Fetch(dirs)

\* Lines 131-133: dest_path.mkdir(parents=True, exist_ok=True), then dest is bound
SaveMkdir ==
    /\ pc = "mkdir"
    /\ \/ \E e \in FsErrors :
             /\ result' = Raise(save_handlers(e, frame.bound), "mkdir")
             /\ frame' = [frame EXCEPT !.caught = e, !.at = "mkdir"]
             /\ pc' = "done"
             /\ UNCHANGED dirs
       \/ /\ dirs' = dirs \cup {frame.path}
          /\ frame' = [frame EXCEPT !.bound = @ \cup {"dest_path", "dest"},
                                    !.dest = Dest(frame.path, frame.filename)]
          /\ pc' = "write"
          /\ UNCHANGED result
    /\ UNCHANGED <<call, img, files, net>>

\* Lines 136-141: dest.write_bytes(response.content); return str(dest.resolve())
SaveWrite ==
    /\ pc = "write"
    /\ \/ \E e \in FsErrors :
             /\ result' = Raise(save_handlers(e, frame.bound), "write_bytes")
             /\ frame' = [frame EXCEPT !.caught = e, !.at = "write_bytes"]
             /\ UNCHANGED files
       \/ /\ files' = files \cup {[dest |-> frame.dest, content |-> frame.content]}
          /\ result' = Return(Resolved(frame.dest))
          /\ UNCHANGED frame
    /\ pc' = "done"
    /\ UNCHANGED <<call, img, dirs, net>>

---------------------------------------------------------------------------
(* GeneratedImage.save *)

\* Lines 197-199: the default filename of a generated image
generated_filename(url, stamp) ==
    LET ext == IF Contains(Lower(url), <<".","j","p","g">>)
               THEN <<".","j","p","g">> ELSE <<".","p","n","g">>
        url_part == SliceTo(SliceFrom(url, RFind(url, "/") + 1), 10)
    IN  stamp \o <<"_">> \o url_part \o ext

\* The cookies GeneratedImage.save hands to Image.save: the image's own
passed_cookies(self, kwargs_cookies) == self.cookies

\* generated.save(**kwargs): fills in the filename, then calls Image.save with
\* cookies=self.cookies; a cookies keyword among kwargs is a TypeError there.
GeneratedSaveBegin ==
    /\ pc = "ready"
    /\ img.cls = "GeneratedImage"
    /\ \E fn \in {FnAbsent, FnNone, FnStr(Shape(2, 4)), FnStr(Shape(max_len, 4))},
          kwCookies \in {NoCookies, JarB, EmptyJar}, skip \in BOOLEAN,
          stamp \in Stamps :
          LET filename == IF fn.passed THEN fn
                          ELSE FnStr(generated_filename(img.url, stamp))
          IN  /\ call' = [op |-> "save", filename |-> fn,
                          hasCookies |-> kwCookies # NoCookies, cookies |-> kwCookies,
                          skip |-> skip, path |-> DefaultPath]
              /\ IF kwCookies # NoCookies
                 THEN /\ result' = Raise("TypeError", "multiple values for cookies")
                      /\ pc' = "done"
                      /\ frame' = NoFrame
                 ELSE EnterSave(filename, passed_cookies(img, kwCookies), skip,
                                DefaultPath)
    /\ UNCHANGED <<img, dirs, files, net>>

---------------------------------------------------------------------------

Init ==
    /\ pc = "idle"
    /\ call = NoCall
    /\ result = Pending
    /\ img = NoImage
    /\ frame = NoFrame
    /\ dirs = {}
    /\ files = {}
    /\ net = <<>>

NextCookies == LoadCookies

NextModels == FromName

NextUpload ==
    \/ UploadBegin
    \/ UploadPost

NextImages ==
    \/ NewImage
    \/ NewGeneratedImage
    \/ SaveBegin
    \/ SaveGet
    \/ SaveMkdir
    \/ SaveWrite
    \/ GeneratedSaveBegin

Next ==
    \/ NextCookies
    \/ NextModels
    \/ NextUpload
    \/ NextImages

\* Every use of the library
Spec == Init /\ [][Next]_vars

\* The uses of one part of the library
SpecCookies == Init /\ [][NextCookies]_vars
SpecModels == Init /\ [][NextModels]_vars
SpecUpload == Init /\ [][NextUpload]_vars
SpecImages == Init /\ [][NextImages]_vars

---------------------------------------------------------------------------
(* Properties of load_cookies *)

IsLoad == pc = "done" /\ call.op = "load_cookies"

\* a list element that is an object with a str name and a value
WellFormed(item) ==
    item.shape = "dict" /\ item.hasName /\ item.nameIsStr /\ item.hasValue

\* a list element that carries cookie name n, in any letter case
Names(item, n) ==
    item.shape = "dict" /\ item.hasName /\ item.nameIsStr /\ Lower(item.name) = Lower(n)

\* the values the entries named n carry
ValuesOf(items, n) ==
    {items[i].value : i \in {j \in 1..Len(items) : Names(items[j], n) /\ items[j].hasValue}}

\* a list of {name, value} entries in which each required cookie is present and
\* every entry of a required cookie has a value that is not empty
HasBoth(file) ==
    /\ file.kind = "json" /\ file.top = "list"
    /\ \A i \in 1..Len(file.items) : WellFormed(file.items[i])
    /\ ValuesOf(file.items, NamePSID) # {} /\ <<>> \notin ValuesOf(file.items, NamePSID)
    /\ ValuesOf(file.items, NamePSIDTS) # {} /\ <<>> \notin ValuesOf(file.items, NamePSIDTS)

\* C1: from a list of {name, value} entries that holds __Secure-1PSID and
\* __Secure-1PSIDTS (in any letter case), each with a value, load_cookies returns
\* the pair (value of __Secure-1PSID, value of __Secure-1PSIDTS), whatever the
\* order of the entries and whatever other cookies the list holds: the first of
\* the pair is the value of an entry named __Secure-1PSID, the second that of an
\* entry named __Secure-1PSIDTS (the one value there is, when a name occurs once).
C1_ReturnsBothValues ==
    IsLoad /\ HasBoth(call.file) =>
        /\ result.kind = "return"
        /\ Len(result.value) = 2
        /\ result.value[1] \in ValuesOf(call.file.items, NamePSID)
        /\ result.value[2] \in ValuesOf(call.file.items, NamePSIDTS)

\* C1's case: the secondary cookie first, an extraneous cookie between, the names
\* in other letter cases, and the pair returned in the right order
C1_Witness ==
    /\ IsLoad
    /\ call.file = FileList(<< Entry(NamePsidtsMixed, <<"t">>), Entry(NamePSIDCC, <<"s">>),
                               Entry(NamePsidLower, <<"s">>) >>)
    /\ result = Return(<< <<"s">>, <<"t">> >>)

\* the first element of the list that carries cookie name n, or 0
FirstNamed(items, n) ==
    IF \E i \in 1..Len(items) : Names(items[i], n)
    THEN CHOOSE i \in 1..Len(items) :
             Names(items[i], n) /\ \A j \in 1..(i-1) : ~Names(items[j], n)
    ELSE 0

\* an element that is no object with a str name comes before any element named n
UnnamedBefore(items, n) ==
    \E j \in 1..Len(items) :
        /\ ~(items[j].shape = "dict" /\ items[j].hasName /\ items[j].nameIsStr)
        /\ \A i \in 1..(j-1) : ~Names(items[i], n)

\* cookie n is missing, or the first entry named n has no value or an empty one
Unusable(items, n) ==
    \/ FirstNamed(items, n) = 0
    \/ ~items[FirstNamed(items, n)].hasValue
    \/ items[FirstNamed(items, n)].value = <<>>

\* no entry named n carries a value that is not empty
NoValue(items, n) == ValuesOf(items, n) \subseteq {<<>>}

BothReturned ==
    /\ Len(result.value) = 2
    /\ result.value[1] # <<>> /\ result.value[1] \in ValuesOf(call.file.items, NamePSID)
    /\ result.value[2] # <<>> /\ result.value[2] \in ValuesOf(call.file.items, NamePSIDTS)

\* C2 as claimed: load_cookies raises whenever the file is absent, the JSON is
\* malformed, the content is not a list of {name, value} entries, or a required
\* cookie is missing or empty; and whenever it returns, both values are non-empty.
C2_AsClaimed ==
    IsLoad =>
        /\ (\/ call.file.kind # "json"
            \/ call.file.top # "list"
            \/ \E i \in 1..Len(call.file.items) : ~WellFormed(call.file.items[i])
            \/ NoValue(call.file.items, NamePSID)
            \/ NoValue(call.file.items, NamePSIDTS))
              => result.kind = "raise"
        /\ result.kind = "return" => BothReturned

\* C2, amended: load_cookies raises whenever the file is absent, the JSON is
\* malformed, the content is not a list, a required cookie is missing, the first
\* entry naming a required cookie has no value or an empty one, or an element
\* without a str name comes before the first entry naming a required cookie;
\* elements past those first entries are not read.  Whenever it returns, both
\* values are those of entries so named, and neither is empty.
C2_NeverPartial ==
    IsLoad =>
        /\ (\/ call.file.kind # "json"
            \/ call.file.top # "list"
            \/ Unusable(call.file.items, NamePSID)
            \/ Unusable(call.file.items, NamePSIDTS)
            \/ UnnamedBefore(call.file.items, NamePSID)
            \/ UnnamedBefore(call.file.items, NamePSIDTS))
              => result.kind = "raise" /\ result.exc = "Exception"
        /\ result.kind = "return" => BothReturned

\* C2's case: an empty primary value makes the load fail, though the secondary
\* cookie is there
C2_Witness ==
    /\ IsLoad
    /\ call.file = FileList(<< Entry(NamePSID, <<>>), Entry(NamePSIDTS, <<"t">>) >>)
    /\ result.kind = "raise"

---------------------------------------------------------------------------
(* Properties of Model.from_name *)

IsLookup == pc = "done" /\ call.op = "from_name"

Gemini25Pro == GeminiPrefix \o <<"5","-","p","r","o">>

\* C3: a lookup by a name no model configuration carries raises (ValueError) and
\* returns no configuration, UNSPECIFIED included; a lookup by a name a
\* configuration carries returns that configuration, and each name is carried by
\* one configuration only.  The lookup issues no request.
C3_UnknownNameFails ==
    /\ \A i, j \in 1..Len(Models) : Models[i].model_name = Models[j].model_name => i = j
    /\ IsLookup =>
        /\ net = <<>>
        /\ IF \E i \in 1..Len(Models) : Models[i].model_name = call.name
           THEN /\ result.kind = "return"
                /\ \E i \in 1..Len(Models) : result.value = Models[i]
                /\ result.value.model_name = call.name
           ELSE result.kind = "raise" /\ result.exc = "ValueError"

\* C3's case: a known name in another letter case is unknown, and the lookup fails
C3_Witness ==
    /\ IsLookup
    /\ call.name = Upper(Gemini25Pro)
    /\ result.kind = "raise"

---------------------------------------------------------------------------
(* Properties of upload_file *)

IsUpload == call.op = "upload_file"

Posts == {i \in 1..Len(net) : net[i].ev = "POST"}

\* C7: given a path that names no existing regular file, upload_file raises
\* FileNotFoundError and, at every moment of the call, no session has been opened
\* and no POST sent; given bytes, the file system is not consulted (the call
\* reaches the request whatever the disk holds) and the POST carries those bytes.
C7_MissingFileNoRequest ==
    IsUpload =>
        /\ (~call.file.isBytes /\ call.file.status # "file") =>
              /\ pc = "done"
              /\ result = Raise("FileNotFoundError", "File not found at path")
              /\ net = <<>>
        /\ call.file.isBytes =>
              /\ pc \in {"post", "done"}
              /\ pc = "done" => Posts # {}
              /\ result.kind = "raise" => result.exc \in TransportErrors \cup StatusErrors
              /\ \A i \in Posts : net[i].body = call.file.data

\* C7's case: the path names a directory; the call has failed and sent nothing
C7_Witness ==
    /\ IsUpload
    /\ ~call.file.isBytes /\ call.file.status = "dir"
    /\ result.kind = "raise" /\ result.exc = "FileNotFoundError"
    /\ net = <<>>

---------------------------------------------------------------------------
(* Properties of Image.save and GeneratedImage.save *)

\* a save() has entered Image.save (it got past GeneratedImage.save's own call)
InSave == call.op = "save" /\ frame # NoFrame

Gets == {i \in 1..Len(net) : net[i].ev = "GET"}

\* the characters a file name must not hold: < > : " / \ | ? *
UnsafeChars == {"<", ">", ":", "\"", "/", "\\", "|", "?", "*"}

\* image_NNNN.jpg with NNNN one of 1000..9999
IsFallbackName(f) ==
    /\ Len(f) = 14
    /\ SubSeq(f, 1, 6) = <<"i","m","a","g","e","_">>
    /\ SubSeq(f, 11, 14) = <<".","j","p","g">>
    /\ \E n \in 1..9 : f[7] = Digits[n + 1]
    /\ \A k \in 8..10 : \E n \in 0..9 : f[k] = Digits[n + 1]

\* C4: a filename (given or derived) longer than 255 characters is cut to at most
\* 255 characters that end with its extension, a shorter one is left as it is, and
\* the file is written under that name.
C4_TruncatedKeepsExtension ==
    InSave /\ ~frame.invalid =>
        /\ Len(frame.named) > max_len =>
              /\ Len(frame.filename) <= max_len
              /\ EndsWith(frame.filename, splitext(frame.named)[2])
        /\ Len(frame.named) <= max_len => frame.filename = frame.named
        /\ \A f \in files : f.dest.name = frame.filename

\* C5: a filename derived from the URL holds none of < > : " / \ | ? * and is
\* never empty; a URL path without a final component gives image_NNNN.jpg.
C5_DerivedNameIsSafe ==
    InSave /\ frame.derived =>
        /\ \A i \in 1..Len(frame.filename) : frame.filename[i] \notin UnsafeChars
        /\ frame.filename # <<>>
        /\ basename(unquote(urlparse_path(img.url))) = <<>> => IsFallbackName(frame.named)

\* C6: when mkdir or write_bytes fails with an I/O error, save() raises that error.
C6_IoErrorPropagates ==
    InSave /\ pc = "done" /\ frame.at \in {"mkdir", "write_bytes"} =>
        result.kind = "raise" /\ result.exc = frame.caught

\* C8: a GeneratedImage exists only with a non-empty dict of cookies (without
\* one its construction fails), every request its save() issues carries those
\* cookies, and a request of an Image's or WebImage's save() carries the cookies
\* the caller passed, none when none were passed.
C8_GeneratedNeedsCookies ==
    /\ img.cls = "GeneratedImage" => img.cookies.t = "dict" /\ img.cookies.d # {}
    /\ (/\ call.op = "new" /\ call.cls = "GeneratedImage"
        /\ (~call.hasCookies \/ call.cookies.t # "dict" \/ call.cookies.d = {}))
          => img = NoImage /\ result.kind = "raise"
    /\ \A i \in 1..Len(net) :
          /\ img.cls = "GeneratedImage" => net[i].cookies = img.cookies
          /\ img.cls \in {"Image", "WebImage"} =>
                net[i].cookies = (IF call.hasCookies THEN call.cookies ELSE NoCookies)

\* C8's case: a generated image's save() has sent its GET with the image's cookies
C8_Witness ==
    /\ img.cls = "GeneratedImage" /\ img.cookies = JarA
    /\ \E i \in Gets : net[i].cookies = JarA

\* C9: save() returns None only for an invalid filename with
\* skip_invalid_filename true; once past the validation it ends by raising or by
\* returning the resolved path of a file it wrote; with skip_invalid_filename
\* false an invalid filename is replaced by image_NNNN.jpg and the save goes on.
C9_NoneOnlyWhenSkipped ==
    call.op = "save" =>
        /\ result = Return(None) => frame # NoFrame /\ frame.invalid /\ call.skip
        /\ (pc = "done" /\ result # Return(None)) =>
              \/ result.kind = "raise"
              \/ /\ result.kind = "return"
                 /\ result.value = Resolved(Dest(call.path, frame.filename))
                 /\ \E f \in files : f.dest = Dest(call.path, frame.filename)
                                       /\ f.content = frame.content
        /\ (frame # NoFrame /\ frame.invalid /\ ~call.skip) =>
              /\ IsFallbackName(frame.filename)
              /\ pc \in {"get", "mkdir", "write", "done"}
              /\ pc = "done" => Gets # {}

\* C9's case: an invalid filename, skip_invalid_filename false, and the file
\* written under the fallback name
C9_Witness ==
    /\ InSave /\ frame.invalid /\ ~call.skip
    /\ pc = "done"
    /\ result = Return(Resolved(Dest(DefaultPath, fallback_name(RandHi))))
    /\ files # {}

\* C10: a directory is made or a file written only after the GET has come back
\* with a success status; a skipped save, a request that fails and a non-success
\* status leave no directory and no file, and the two failures are raised.
C10_NoFileBeforeSuccess ==
    call.op = "save" =>
        /\ (dirs # {} \/ files # {}) =>
              /\ Gets # {}
              /\ frame.content \in Contents
              /\ frame.at \notin {"get", "raise_for_status"}
        /\ (pc = "done" /\ result = Return(None)) => dirs = {} /\ files = {} /\ net = <<>>
        /\ (frame # NoFrame /\ frame.at \in {"get", "raise_for_status"}) =>
              /\ dirs = {} /\ files = {}
              /\ result.kind = "raise" /\ result.exc = frame.caught

\* C10's case: the status check has failed; nothing is on disk and the error is raised
C10_Witness ==
    /\ InSave /\ pc = "done"
    /\ frame.at = "raise_for_status"
    /\ result.kind = "raise"
    /\ dirs = {} /\ files = {}

=============================================================================
